---------------------------- MODULE Spec2Model ----------------------------
(***************************************************************************)
(* A model of the stack VM as seen through its Python binding              *)
(* (bindings/python/libstackvm.py).  The binding's classes (Parser,        *)
(* SourceMap, VirtualMachine, Registers, Value, Stack) are translated from *)
(* the Python source.  The native library the binding loads                *)
(* (libstackvm) is not part of the Python file; its entry points, named    *)
(* stackvm_..., are modelled from the written specification and are marked *)
(* "native" below.                                                         *)
(***************************************************************************)
EXTENDS Integers, Sequences, FiniteSets, TLC

VARIABLES
    source,     \* the source text handed to Parser.init: a sequence of items
    parser,     \* the native parser's state behind the Parser handle
    reader,     \* the Reader returned by Parser.parse, or NoReader
    vm,         \* the native VM behind the VirtualMachine handle, or NoVM
    ret,        \* what the last binding call returned (NoValue: nothing)
    exc,        \* the exception the last binding call raised, or NoExc
    op,         \* the last binding call and its arguments
    fresh       \* TRUE while the VM is as VirtualMachine.init left it

vars == <<source, parser, reader, vm, ret, exc, op, fresh>>

-----------------------------------------------------------------------------
(* Bounds of the model *)

\* longest source text, in items (statements and line breaks)
MaxItems == 4
\* most Values the operand stack holds (a push beyond it is a stack overflow)
MaxStack == 2

-----------------------------------------------------------------------------
(* ValueType and the c_int32 payload *)

NONE == 0
INTEGER == 1
FLOAT == 2
ADDRESS_HEAP == 3
ADDRESS_STRING == 4
ADDRESS_CODE == 5
ADDRESS_STACK == 6

ValueType == NONE .. ADDRESS_STACK

\* c_int32: the largest payload of an Integer
MaxInt32 == 2147483647
MinInt32 == -MaxInt32 - 1

NoValue == [none |-> TRUE]
NoExc == [none |-> TRUE]
NoReader == [none |-> TRUE]
NoVM == [none |-> TRUE]

\* One field of the ValueUnion.  The three fields share their storage, so only
\* the field that was written holds a known payload; read through another
\* field, the bytes are a reinterpretation the model does not compute.
Cell(x) == [known |-> TRUE, v |-> x]
Aliased == [known |-> FALSE, v |-> 0]

\* ValueUnion: three views of the same storage.
ValueUnion(i, f, s) == [integer |-> i, float |-> f, size |-> s]

\* ctypes' Value(): a zero-filled structure (every view reads zero).
Value_zero == [kind |-> 0, _value |-> ValueUnion(Cell(0), Cell(0), Cell(0))]

\* ctypes' conversion of a Python int to a c_uint8 argument.
c_uint8(x) == x % 256

\* native: the three constructors of the library.
stackvm_value_int(x) == [kind |-> INTEGER, _value |-> ValueUnion(x, Aliased, Aliased)]
stackvm_value_float(x) == [kind |-> FLOAT, _value |-> ValueUnion(Aliased, x, Aliased)]
stackvm_value_size(kind, x) ==
    [kind |-> c_uint8(kind), _value |-> ValueUnion(Aliased, Aliased, x)]

\* Value.init as it would be without the NONE guard.
Value_init_unguarded(type, value) ==
    IF type = INTEGER THEN [raised |-> NoExc, ret |-> stackvm_value_int(Cell(value))]
    ELSE IF type = FLOAT THEN [raised |-> NoExc, ret |-> stackvm_value_float(Cell(value))]
    ELSE [raised |-> NoExc, ret |-> stackvm_value_size(type, Cell(value))]

\* Value.init
Value_init(type, value) ==
    IF type = NONE
    THEN [raised |-> [msg |-> "Cannot create value of type NONE"], ret |-> NoValue]
    ELSE IF type = INTEGER THEN [raised |-> NoExc, ret |-> stackvm_value_int(Cell(value))]
    ELSE IF type = FLOAT THEN [raised |-> NoExc, ret |-> stackvm_value_float(Cell(value))]
    ELSE [raised |-> NoExc, ret |-> stackvm_value_size(type, Cell(value))]

\* Value.value read through the size field whatever the kind.
Value_value_size_only(v) == v._value.size

\* Value.value: the union field the kind selects.
Value_value(v) ==
    IF INTEGER = v.kind THEN v._value.integer
    ELSE IF FLOAT = v.kind THEN v._value.float
    ELSE v._value.size

\* Two Values are equal in kind and payload.
SameValue(a, b) == a.kind = b.kind /\ Value_value(a) = Value_value(b)

-----------------------------------------------------------------------------
(* Stack: the native entry points (an operand stack is a sequence of Values, *)
(* index 0 first) and the binding's methods over them                        *)

\* native: stackvm_stack_get_len
stackvm_stack_get_len(stk) == Len(stk)

\* native: stackvm_stack_load; an index >= length is erroneous, no Value comes back
stackvm_stack_load(stk, index) ==
    IF index < Len(stk) THEN stk[index + 1] ELSE NoValue

\* native: the store entry points overwrite at index and never grow the stack
StoreAt(stk, index, v) ==
    IF index < Len(stk) THEN [stk EXCEPT ![index + 1] = v] ELSE stk

stackvm_stack_store_int(stk, index, x) == StoreAt(stk, index, stackvm_value_int(x))
stackvm_stack_store_float(stk, index, x) == StoreAt(stk, index, stackvm_value_float(x))
stackvm_stack_store_address(stk, index, kind, x) ==
    StoreAt(stk, index, stackvm_value_size(kind, x))

\* native: the push entry points append
stackvm_stack_push_int(stk, x) == Append(stk, stackvm_value_int(x))
stackvm_stack_push_float(stk, x) == Append(stk, stackvm_value_float(x))
stackvm_stack_push_address(stk, kind, x) == Append(stk, stackvm_value_size(kind, x))

\* native: stackvm_stack_pop removes and returns the last element; on an empty
\* stack it is erroneous and no Value comes back
stackvm_stack_pop(stk) ==
    IF Len(stk) > 0
    THEN [stack |-> SubSeq(stk, 1, Len(stk) - 1), ret |-> stk[Len(stk)]]
    ELSE [stack |-> stk, ret |-> NoValue]

\* Stack.__len__
Stack_len(stk) == stackvm_stack_get_len(stk)

\* Stack.load
Stack_load(stk, index) == stackvm_stack_load(stk, index)

\* Stack.store that appends when the index is the length (an implicit grow).
Stack_store_growing(stk, index, value) ==
    IF index = Len(stk)
    THEN stackvm_stack_push_address(stk, value.kind, Value_value(value))
    ELSE stackvm_stack_store_address(stk, index, value.kind, Value_value(value))

\* Stack.store that hands every address to the native side as a heap address.
Stack_store_heap_only(stk, index, value) ==
    IF value.kind = INTEGER
    THEN stackvm_stack_store_int(stk, index, Value_value(value))
    ELSE IF value.kind = FLOAT
    THEN stackvm_stack_store_float(stk, index, Value_value(value))
    ELSE stackvm_stack_store_address(stk, index, ADDRESS_HEAP, Value_value(value))

\* Stack.store (the second definition of the class, which replaces the first)
Stack_store(stk, index, value) ==
    IF value.kind = INTEGER
    THEN stackvm_stack_store_int(stk, index, Value_value(value))
    ELSE IF value.kind = FLOAT
    THEN stackvm_stack_store_float(stk, index, Value_value(value))
    ELSE stackvm_stack_store_address(stk, index, value.kind, Value_value(value))

\* Stack.push that reads the payload of every Value through the size field.
Stack_push_size_only(stk, value) ==
    IF value.kind = INTEGER
    THEN stackvm_stack_push_int(stk, Value_value_size_only(value))
    ELSE IF value.kind = FLOAT
    THEN stackvm_stack_push_float(stk, Value_value_size_only(value))
    ELSE stackvm_stack_push_address(stk, value.kind, Value_value_size_only(value))

\* Stack.push
Stack_push(stk, value) ==
    IF value.kind = INTEGER
    THEN stackvm_stack_push_int(stk, Value_value(value))
    ELSE IF value.kind = FLOAT
    THEN stackvm_stack_push_float(stk, Value_value(value))
    ELSE stackvm_stack_push_address(stk, value.kind, Value_value(value))

\* Stack.pop
Stack_pop(stk) == stackvm_stack_pop(stk)

-----------------------------------------------------------------------------
(* Source text.  A source is a sequence of items: a statement (a mnemonic and *)
(* its operand, if any) or a line break.  Items on one line are separated by  *)
(* one space.                                                                  *)

NL == <<"\n">>

Statements ==
    { <<"PUSHI", "5">>, <<"PUSHI", "3">>, <<"PUSHI", "2147483647">>,
      <<"ADD">>, <<"JUMP", "0">>, <<"JUMP", "9">>, <<"HALT">>, <<"NOPZ">> }

Items == Statements \cup {NL}

\* The mnemonics the parser knows, with the number of operands each takes.
Mnemonics == {"PUSHI", "ADD", "JUMP", "HALT"}

\* The number of characters of a word of the source.
WordLen(w) ==
    CASE w = "PUSHI" -> 5
      [] w = "ADD" -> 3
      [] w = "JUMP" -> 4
      [] w = "HALT" -> 4
      [] w = "NOPZ" -> 4
      [] w = "2147483647" -> 10
      [] OTHER -> 1

\* The integer a numeric word denotes.
ParseInt(w) ==
    CASE w = "0" -> 0
      [] w = "3" -> 3
      [] w = "5" -> 5
      [] w = "9" -> 9
      [] w = "2147483647" -> MaxInt32

\* The number of characters of a statement: its words and the spaces between.
ItemLen(item) ==
    IF Len(item) = 1 THEN WordLen(item[1]) ELSE WordLen(item[1]) + 1 + WordLen(item[2])

Sources == UNION { [1 .. n -> Items] : n \in 0 .. MaxItems }

-----------------------------------------------------------------------------
(* TextPosition, InstructionSpan, SourceMap *)

\* TextPosition.init
TextPosition_init(line, column, offset) ==
    [line |-> line, column |-> column, offset |-> offset]

\* InstructionSpan.init with its defaults
InstructionSpan_init(instruction, start, end) ==
    [instruction |-> instruction, start |-> start, end |-> end]

InstructionSpan_empty ==
    InstructionSpan_init(0, TextPosition_init(0, 0, 0), TextPosition_init(0, 0, 0))

\* native: stackvm_sourcemap_init: an empty map (a set of spans, one per key)
stackvm_sourcemap_init == {}

\* native: insertion of a span under its instruction index
SourceMap_put(map, span) ==
    { s \in map : s.instruction # span.instruction } \cup {span}

\* native: stackvm_sourcemap_find: whether the key is present, and the span
\* written through the out pointer (the caller's span is left alone when not)
stackvm_sourcemap_find(map, bytecode_pos, result) ==
    IF \E s \in map : s.instruction = bytecode_pos
    THEN [found |-> TRUE,
          result |-> CHOOSE s \in map : s.instruction = bytecode_pos]
    ELSE [found |-> FALSE, result |-> result]

\* SourceMap.find that returns its result whether or not the key was found.
SourceMap_find_unchecked(map, bytecode_pos) ==
    stackvm_sourcemap_find(map, bytecode_pos, InstructionSpan_empty).result

\* SourceMap.find
SourceMap_find(map, bytecode_pos) ==
    LET r == stackvm_sourcemap_find(map, bytecode_pos, InstructionSpan_empty)
    IN  IF r.found THEN r.result ELSE NoValue

-----------------------------------------------------------------------------
(* Parser: the native parser and the binding's methods *)

\* The instruction a statement compiles to.
Compile(item) ==
    IF Len(item) = 1
    THEN [opcode |-> item[1], arg |-> 0]
    ELSE [opcode |-> item[1], arg |-> ParseInt(item[2])]

\* The position n characters further on the same line.
Advance(pos, n) ==
    TextPosition_init(pos.line, pos.column + n, pos.offset + n)

\* The position at the start of the next line.
NextLine(pos) == TextPosition_init(pos.line + 1, 0, pos.offset + 1)

\* native: stackvm_parser_init: nothing scanned yet
stackvm_parser_init(src) ==
    [source |-> src, done |-> FALSE, failed |-> FALSE, code |-> <<>>,
     position |-> TextPosition_init(0, 0, 0), err_message |-> "",
     source_map |-> stackvm_sourcemap_init, current_instruction |-> 0]

\* native: the scan from item i on.  Each statement is compiled, its span is
\* recorded under the instruction counter, and the counter advances; an unknown
\* mnemonic stops the scan at once, at the position of that token, and no
\* bytecode is kept.
RECURSIVE Scan(_, _)
Scan(p, i) ==
    IF i > Len(p.source) THEN [p EXCEPT !.done = TRUE]
    ELSE LET item == p.source[i] IN
    IF item = NL THEN Scan([p EXCEPT !.position = NextLine(p.position)], i + 1)
    ELSE IF item[1] \notin Mnemonics
    THEN [p EXCEPT !.done = TRUE, !.failed = TRUE, !.code = <<>>,
                   !.err_message = "unknown instruction"]
    ELSE LET start == p.position
             end == Advance(start, ItemLen(item))
             sep == IF i < Len(p.source) /\ p.source[i + 1] # NL THEN 1 ELSE 0
             span == InstructionSpan_init(p.current_instruction, start, end)
         IN  Scan([p EXCEPT !.code = Append(p.code, Compile(item)),
                            !.source_map = SourceMap_put(p.source_map, span),
                            !.current_instruction = p.current_instruction + 1,
                            !.position = Advance(end, sep)],
                  i + 1)

\* native: stackvm_parser_parse: the parser after the scan; a null address on failure
stackvm_parser_parse(p) == Scan(stackvm_parser_init(p.source), 1)

\* native: stackvm_parser_get_err_message: the text and its length (0: no message)
stackvm_parser_get_err_message(p) ==
    [err_len |-> IF p.failed THEN 1 ELSE 0, err_ptr |-> p.err_message]

\* Parser.get_position
Parser_get_position(p) == p.position

\* Parser.get_source_map
Parser_get_source_map(p) == p.source_map

\* Parser.get_err_message (Python's None is written "None", as it reads in the
\* exception's text)
Parser_get_err_message(p) ==
    LET r == stackvm_parser_get_err_message(p)
    IN  IF r.err_len > 0 THEN r.err_ptr ELSE "None"

\* native: stackvm_reader_get_len
stackvm_reader_get_len(r) == Len(r.code)

\* Reader.__len__
Reader_len(r) == stackvm_reader_get_len(r)

\* Parser.parse that renders the position as the parser keeps it (0-based).
Parser_parse_zero_based(p) ==
    LET q == stackvm_parser_parse(p) IN
    IF q.failed
    THEN [parser |-> q, ret |-> NoReader,
          raised |-> [msg |-> Parser_get_err_message(q),
                      line |-> Parser_get_position(q).line,
                      column |-> Parser_get_position(q).column]]
    ELSE [parser |-> q, ret |-> [code |-> q.code], raised |-> NoExc]

\* Parser.parse: the Reader on success; on failure an exception whose text is
\* "<msg> (line <line + 1>, column <column + 1>)"
Parser_parse(p) ==
    LET q == stackvm_parser_parse(p) IN
    IF q.failed
    THEN [parser |-> q, ret |-> NoReader,
          raised |-> [msg |-> Parser_get_err_message(q),
                      line |-> Parser_get_position(q).line + 1,
                      column |-> Parser_get_position(q).column + 1]]
    ELSE [parser |-> q, ret |-> [code |-> q.code], raised |-> NoExc]

-----------------------------------------------------------------------------
(* VirtualMachine and Registers *)

\* native: stackvm_init: registers all zero, stack empty, nothing run yet
stackvm_init(r) ==
    [status |-> "ready", code |-> r.code, stack |-> <<>>,
     registers |-> [frame_pointer |-> 0, global_pointer |-> 0,
                    code_pointer |-> 0, stack_pointer |-> 0],
     last_instruction |-> 0, err_message |-> ""]

\* VirtualMachine.init
VirtualMachine_init(r) == stackvm_init(r)

\* native: the register setters store the word they are given
stackvm_registers_set_frame_pointer(v, value) ==
    [v EXCEPT !.registers.frame_pointer = value]
stackvm_registers_set_global_pointer(v, value) ==
    [v EXCEPT !.registers.global_pointer = value]
stackvm_registers_set_code_pointer(v, value) ==
    [v EXCEPT !.registers.code_pointer = value]
stackvm_registers_set_stack_pointer(v, value) ==
    [v EXCEPT !.registers.stack_pointer = value]

\* Registers.frame_pointer, global_pointer, stack_pointer (setters)
Registers_set_frame_pointer(v, value) ==
    [vm |-> stackvm_registers_set_frame_pointer(v, value), raised |-> NoExc]
Registers_set_global_pointer(v, value) ==
    [vm |-> stackvm_registers_set_global_pointer(v, value), raised |-> NoExc]
Registers_set_stack_pointer(v, value) ==
    [vm |-> stackvm_registers_set_stack_pointer(v, value), raised |-> NoExc]

\* Registers.code_pointer (setter) that rejects a value outside the program.
Registers_set_code_pointer_eager(v, value) ==
    IF value >= Len(v.code)
    THEN [vm |-> v, raised |-> [msg |-> "code pointer out of range"]]
    ELSE [vm |-> stackvm_registers_set_code_pointer(v, value), raised |-> NoExc]

\* Registers.code_pointer (setter)
Registers_set_code_pointer(v, value) ==
    [vm |-> stackvm_registers_set_code_pointer(v, value), raised |-> NoExc]

\* Registers.code_pointer (getter)
Registers_code_pointer(v) == v.registers.code_pointer

\* VirtualMachine.last_instruction
VirtualMachine_last_instruction(v) == v.last_instruction

\* 32-bit signed addition: whether it overflows, and the wrapped sum.
Overflows(a, b) ==
    \/ a > 0 /\ b > 0 /\ a > MaxInt32 - b
    \/ a < 0 /\ b < 0 /\ a < MinInt32 - b

WrapAdd(a, b) ==
    IF a > 0 /\ b > 0 /\ a > MaxInt32 - b
    THEN (a - MaxInt32 - 1) + (b - MaxInt32 - 1)
    ELSE IF a < 0 /\ b < 0 /\ a < MinInt32 - b
    THEN (a + MaxInt32 + 1) + (b + MaxInt32 + 1)
    ELSE a + b

\* native: the VM stopped by a fault at the instruction it was on
Fault(v, msg) ==
    [v EXCEPT !.status = "faulted", !.err_message = msg,
              !.last_instruction = v.registers.code_pointer]

\* native: the instruction done, the code pointer advanced to the next one
Next1(v, stk) ==
    [v EXCEPT !.stack = stk, !.last_instruction = v.registers.code_pointer,
              !.registers.code_pointer = v.registers.code_pointer + 1]

\* native: one turn of the fetch-decode-execute loop: the VMs it may leave.
\* The loop ends normally when the code pointer has advanced just past the
\* last instruction; a code pointer further out faults on the fetch.  An
\* addition whose sum does not fit 32 bits either wraps or is an arithmetic
\* fault: the written specification settles neither.
ExecTurn(v) ==
    LET cp == v.registers.code_pointer
        stk == v.stack
        n == Len(stk)
    IN
    IF cp = Len(v.code) THEN { [v EXCEPT !.status = "halted"] }
    ELSE IF cp > Len(v.code) THEN { Fault(v, "code pointer out of range") }
    ELSE LET ins == v.code[cp + 1] IN
    CASE ins.opcode = "HALT" ->
            { [v EXCEPT !.status = "halted", !.last_instruction = cp] }
      [] ins.opcode = "PUSHI" ->
            IF n >= MaxStack THEN { Fault(v, "stack overflow") }
            ELSE { Next1(v, stackvm_stack_push_int(stk, Cell(ins.arg))) }
      [] ins.opcode = "JUMP" ->
            IF ins.arg >= Len(v.code) THEN { Fault(v, "address out of range") }
            ELSE { [v EXCEPT !.registers.code_pointer = ins.arg,
                             !.last_instruction = cp] }
      [] ins.opcode = "ADD" ->
            IF n < 2 THEN { Fault(v, "stack underflow") }
            ELSE LET a == stk[n - 1]
                     b == stk[n]
                     rest == SubSeq(stk, 1, n - 2)
                 IN
                 IF a.kind # INTEGER \/ b.kind # INTEGER
                    \/ ~a._value.integer.known \/ ~b._value.integer.known
                 THEN { Fault(v, "type mismatch") }
                 ELSE LET x == a._value.integer.v
                          y == b._value.integer.v
                          sum == Next1(v, stackvm_stack_push_int(rest, Cell(WrapAdd(x, y))))
                      IN  IF Overflows(x, y)
                          THEN { sum, Fault(v, "integer overflow") }
                          ELSE { sum }

\* native: stackvm_get_err_message: the text and its length (0: no message)
stackvm_get_err_message(v) ==
    [err_len |-> IF v.err_message # "" THEN 1 ELSE 0, err_ptr |-> v.err_message]

\* VirtualMachine.err_message (Python's None is written "None", as it reads in
\* the exception's text)
VirtualMachine_err_message(v) ==
    LET r == stackvm_get_err_message(v)
    IN  IF r.err_len > 0 THEN r.err_ptr ELSE "None"

\* VirtualMachine.execute that drops what the native call returned.
VirtualMachine_execute_unchecked(v) == NoExc

\* VirtualMachine.execute that raises on success instead of on failure.
VirtualMachine_execute_inverted(v) ==
    LET success == v.status = "halted"
    IN  IF success THEN [msg |-> VirtualMachine_err_message(v)] ELSE NoExc

\* VirtualMachine.execute, once the native loop has returned: it raises the
\* VM's message unless the native call reported success
VirtualMachine_execute(v) ==
    LET success == v.status = "halted"
    IN  IF ~success THEN [msg |-> VirtualMachine_err_message(v)] ELSE NoExc

-----------------------------------------------------------------------------
(* The calls a host makes through the binding *)

IsValue(x) == "kind" \in DOMAIN x

NoOp == [name |-> "none"]

\* What is remembered of a call: its name, its arguments, and the stack as
\* it was when the call was made.
Call(name, args) ==
    [name |-> name, args |-> args,
     before |-> IF name \in {"Stack.push", "Stack.store"} THEN vm.stack ELSE <<>>,
     prev |-> NoOp]

\* The same, remembering the call made just before when it was a call of
\* the named method.
CallAfter(name, args, earlier) ==
    [Call(name, args) EXCEPT
        !.prev = IF op.name = earlier THEN [op EXCEPT !.prev = NoOp] ELSE NoOp]

\* The payloads a host passes to Value.init for each kind (a c_double is
\* written as twice its value).
Payloads(type) ==
    IF type = NONE THEN {-1, 0, 7}
    ELSE IF type = INTEGER THEN {-1, MaxInt32}
    ELSE IF type = FLOAT THEN {3}
    ELSE {7}

Finished(v) == v.status \in {"halted", "faulted"}

\* The host calls into a VM that exists and has not been run yet.
Idle == vm # NoVM /\ vm.status = "ready"

\* The sources of the sessions in which the host drives the stack itself:
\* the empty program and the program of one addition.
HostSources == { <<>>, << <<"ADD">> >> }

\* The sources of the sessions in which the host writes the registers: the
\* sources of at most one item.
RegSources == { s \in Sources : Len(s) <= 1 }

\* The words a host writes into a register other than the code pointer.
RegisterInputs == {0, 1}

\* Parser.init(source)
Init ==
    /\ source \in Sources
    /\ parser = stackvm_parser_init(source)
    /\ reader = NoReader
    /\ vm = NoVM
    /\ ret = NoValue
    /\ exc = NoExc
    /\ op = [name |-> "Parser.init", args |-> <<>>, before |-> <<>>, prev |-> NoOp]
    /\ fresh = FALSE

\* parser.parse()
Parse ==
    /\ ~parser.done
    /\ LET r == Parser_parse(parser) IN
        /\ parser' = r.parser
        /\ reader' = r.ret
        /\ ret' = r.ret
        /\ exc' = r.raised
    /\ op' = Call("Parser.parse", <<>>)
    /\ UNCHANGED <<source, vm, fresh>>

\* parser.get_source_map().find(i)
Find(i) ==
    /\ parser.done
    /\ vm = NoVM
    /\ ret' = SourceMap_find(Parser_get_source_map(parser), i)
    /\ exc' = NoExc
    /\ op' = Call("SourceMap.find", <<i>>)
    /\ UNCHANGED <<source, parser, reader, vm, fresh>>

\* VirtualMachine.init(reader)
VMInit ==
    /\ reader # NoReader
    /\ vm = NoVM
    /\ vm' = VirtualMachine_init(reader)
    /\ fresh' = TRUE
    /\ ret' = NoValue
    /\ exc' = NoExc
    /\ op' = Call("VirtualMachine.init", <<>>)
    /\ UNCHANGED <<source, parser, reader>>

\* vm.registers.code_pointer = value
SetCodePointer(value) ==
    /\ Idle
    /\ LET r == Registers_set_code_pointer(vm, value) IN
        /\ vm' = r.vm
        /\ exc' = r.raised
    /\ fresh' = FALSE
    /\ ret' = NoValue
    /\ op' = Call("Registers.code_pointer", <<value>>)
    /\ UNCHANGED <<source, parser, reader>>

\* vm.execute(): the native loop is entered
ExecuteBegin ==
    /\ vm # NoVM
    /\ vm.status = "ready"
    /\ vm' = [vm EXCEPT !.status = "running"]
    /\ ret' = NoValue
    /\ exc' = NoExc
    /\ op' = Call("VirtualMachine.execute", <<>>)
    /\ UNCHANGED <<source, parser, reader, fresh>>

\* vm.execute(): one turn of the native loop; when the loop ends, the binding
\* raises or returns
ExecuteTurn ==
    /\ vm # NoVM
    /\ vm.status = "running"
    /\ \E v \in ExecTurn(vm) :
        /\ vm' = v
        /\ exc' = IF Finished(v) THEN VirtualMachine_execute(v) ELSE exc
    /\ UNCHANGED <<source, parser, reader, ret, op, fresh>>

\* Value.init(type, value)
ValueInit(type, value) ==
    /\ Idle
    /\ LET r == Value_init(type, value) IN
        /\ ret' = r.ret
        /\ exc' = r.raised
    /\ op' = Call("Value.init", <<type, value>>)
    /\ UNCHANGED <<source, parser, reader, vm, fresh>>

\* Value(): the structure's own constructor
ValueDefault ==
    /\ Idle
    /\ ret' = Value_zero
    /\ exc' = NoExc
    /\ op' = Call("Value", <<>>)
    /\ UNCHANGED <<source, parser, reader, vm, fresh>>

\* vm.stack.push(value), with the Value the host obtained last
Push ==
    /\ Idle
    /\ IsValue(ret)
    /\ Len(vm.stack) < MaxStack
    /\ vm' = [vm EXCEPT !.stack = Stack_push(vm.stack, ret)]
    /\ fresh' = FALSE
    /\ ret' = NoValue
    /\ exc' = NoExc
    /\ op' = Call("Stack.push", <<ret>>)
    /\ UNCHANGED <<source, parser, reader>>

\* vm.stack.pop()
Pop ==
    /\ Idle
    /\ LET r == Stack_pop(vm.stack) IN
        /\ vm' = [vm EXCEPT !.stack = r.stack]
        /\ ret' = r.ret
    /\ fresh' = FALSE
    /\ exc' = NoExc
    /\ op' = CallAfter("Stack.pop", <<>>, "Stack.push")
    /\ UNCHANGED <<source, parser, reader>>

\* vm.stack.store(index, value), with the Value the host obtained last
Store(index) ==
    /\ Idle
    /\ IsValue(ret)
    /\ vm' = [vm EXCEPT !.stack = Stack_store(vm.stack, index, ret)]
    /\ fresh' = FALSE
    /\ ret' = NoValue
    /\ exc' = NoExc
    /\ op' = Call("Stack.store", <<index, ret>>)
    /\ UNCHANGED <<source, parser, reader>>

\* vm.stack.load(index)
Load(index) ==
    /\ Idle
    /\ ret' = Stack_load(vm.stack, index)
    /\ exc' = NoExc
    /\ op' = CallAfter("Stack.load", <<index>>, "Stack.store")
    /\ UNCHANGED <<source, parser, reader, vm, fresh>>

\* vm.registers.frame_pointer = value
SetFramePointer(value) ==
    /\ Idle
    /\ LET r == Registers_set_frame_pointer(vm, value) IN
        /\ vm' = r.vm
        /\ exc' = r.raised
    /\ fresh' = FALSE
    /\ ret' = NoValue
    /\ op' = Call("Registers.frame_pointer", <<value>>)
    /\ UNCHANGED <<source, parser, reader>>

\* vm.registers.global_pointer = value
SetGlobalPointer(value) ==
    /\ Idle
    /\ LET r == Registers_set_global_pointer(vm, value) IN
        /\ vm' = r.vm
        /\ exc' = r.raised
    /\ fresh' = FALSE
    /\ ret' = NoValue
    /\ op' = Call("Registers.global_pointer", <<value>>)
    /\ UNCHANGED <<source, parser, reader>>

\* vm.registers.stack_pointer = value
SetStackPointer(value) ==
    /\ Idle
    /\ LET r == Registers_set_stack_pointer(vm, value) IN
        /\ vm' = r.vm
        /\ exc' = r.raised
    /\ fresh' = FALSE
    /\ ret' = NoValue
    /\ op' = Call("Registers.stack_pointer", <<value>>)
    /\ UNCHANGED <<source, parser, reader>>

Next ==
    \/ Parse
    \/ \E i \in 0 .. MaxItems + 1 : Find(i)
    \/ VMInit
    \/ ExecuteBegin
    \/ ExecuteTurn

\* A parse, source map lookups, a VM over the Reader, its execution.
Spec == Init /\ [][Next]_vars

\* A host session: the source is one of HostSources.
HostInit == Init /\ source \in HostSources

HostNext ==
    \/ Parse
    \/ VMInit
    \/ \E type \in ValueType : \E value \in Payloads(type) : ValueInit(type, value)
    \/ ValueDefault
    \/ Push
    \/ Pop
    \/ \E index \in 0 .. MaxStack : Store(index)
    \/ \E index \in 0 .. MaxStack : Load(index)
    \/ ExecuteBegin
    \/ ExecuteTurn

\* The host drives the stack of a VM itself.
HostSpec == HostInit /\ [][HostNext]_vars

\* A register session: the source is one of RegSources.
RegInit == Init /\ source \in RegSources

RegNext ==
    \/ Parse
    \/ VMInit
    \/ \E value \in RegisterInputs : SetFramePointer(value)
    \/ \E value \in RegisterInputs : SetGlobalPointer(value)
    \/ \E value \in 0 .. MaxItems + 1 : SetCodePointer(value)
    \/ \E value \in RegisterInputs : SetStackPointer(value)
    \/ ExecuteBegin
    \/ ExecuteTurn

\* The host writes the registers of a VM and runs it.
RegSpec == RegInit /\ [][RegNext]_vars

-----------------------------------------------------------------------------
(* Properties *)

\* The program push Integer(a); push Integer(b); add; halt
AddProgram(a, b) ==
    << [opcode |-> "PUSHI", arg |-> a], [opcode |-> "PUSHI", arg |-> b],
       [opcode |-> "ADD", arg |-> 0], [opcode |-> "HALT", arg |-> 0] >>

\* The operands a statement of the source can push.
Operands == { ParseInt(item[2]) : item \in { st \in Statements : st[1] = "PUSHI" } }

\* An integer as its two 16-bit halves, and the sum of two such, so that a sum
\* outside 32 bits can be written down.
Wide(x) == << x \div 65536, x % 65536 >>

WideAdd(u, w) == << u[1] + w[1] + (u[2] + w[2]) \div 65536, (u[2] + w[2]) % 65536 >>

\* A run of execute() that began on a VM as VirtualMachine.init left it has ended.
FreshRunEnded == vm # NoVM /\ fresh /\ Finished(vm)

\* C1: execute() on a freshly initialised VM over a parsed program ends either
\* Halted, and then the binding raises nothing, or Faulted, and then the binding
\* raises and last_instruction is strictly less than the Reader's length.
C1_ExecuteOutcome ==
    FreshRunEnded =>
        /\ vm.status = "halted" => exc = NoExc
        /\ vm.status = "faulted" =>
            /\ exc # NoExc
            /\ VirtualMachine_last_instruction(vm) < Reader_len(reader)

C1_Witness ==
    /\ FreshRunEnded
    /\ vm.status = "faulted"
    /\ exc # NoExc
    /\ VirtualMachine_last_instruction(vm) = 2
    /\ Reader_len(reader) = 4

\* C4 as stated: push Integer(a); push Integer(b); add; halt on a fresh VM ends
\* Halted with success and a stack holding exactly Integer(a+b), for all a, b.
C4_AddAnyOperands ==
    \A a, b \in Operands :
        (FreshRunEnded /\ vm.code = AddProgram(a, b)) =>
            /\ vm.status = "halted"
            /\ exc = NoExc
            /\ Len(vm.stack) = 1
            /\ vm.stack[1].kind = INTEGER
            /\ Wide(Value_value(vm.stack[1]).v) = WideAdd(Wide(a), Wide(b))

\* C4, amended: a fresh VM has all four registers zero and an empty stack, and
\* push Integer(a); push Integer(b); add; halt run on it ends Halted with success
\* and a stack holding exactly Integer(a+b), whenever a+b fits 32 bits signed.
C4_AddInRange ==
    /\ op.name = "VirtualMachine.init" =>
        /\ vm.registers = [frame_pointer |-> 0, global_pointer |-> 0,
                           code_pointer |-> 0, stack_pointer |-> 0]
        /\ Stack_len(vm.stack) = 0
    /\ \A a, b \in Operands :
        (FreshRunEnded /\ vm.code = AddProgram(a, b) /\ ~Overflows(a, b)) =>
            /\ vm.status = "halted"
            /\ exc = NoExc
            /\ Stack_len(vm.stack) = 1
            /\ SameValue(Stack_load(vm.stack, 0), stackvm_value_int(Cell(a + b)))

C4_Witness ==
    /\ FreshRunEnded
    /\ vm.code = AddProgram(5, 3)
    /\ vm.status = "halted"
    /\ Stack_len(vm.stack) = 1
    /\ Value_value(Stack_load(vm.stack, 0)) = Cell(8)

\* The first item of a source that is no line break and no known mnemonic
\* (0: there is none).
FirstUnknown(src) ==
    LET bad == { i \in 1 .. Len(src) : src[i] # NL /\ src[i][1] \notin Mnemonics }
    IN  IF bad = {} THEN 0 ELSE CHOOSE i \in bad : \A j \in bad : i <= j

\* The 0-based line of item k: the line breaks before it.
LineOf(src, k) == Cardinality({ j \in 1 .. k - 1 : src[j] = NL })

\* The 0-based column of item k: the statements before it on its line, each
\* followed by one space.
RECURSIVE ColumnOf(_, _)
ColumnOf(src, k) ==
    IF k = 1 \/ src[k - 1] = NL THEN 0
    ELSE ColumnOf(src, k - 1) + ItemLen(src[k - 1]) + 1

\* C8: a parse of a source with an unknown mnemonic fails: no Reader and no
\* bytecode are left, get_err_message() is non-empty, get_position() is the
\* 0-based line and column of the first unknown token, and Parser.parse raises
\* an error carrying that line and column plus one; a parse of any other source
\* returns a Reader and raises nothing.
C8_ParseError ==
    op.name = "Parser.parse" =>
        LET k == FirstUnknown(source) IN
        IF k # 0
        THEN /\ reader = NoReader
             /\ ret = NoReader
             /\ parser.code = <<>>
             /\ Parser_get_err_message(parser) \notin {"", "None"}
             /\ Parser_get_position(parser).line = LineOf(source, k)
             /\ Parser_get_position(parser).column = ColumnOf(source, k)
             /\ exc = [msg |-> Parser_get_err_message(parser),
                       line |-> LineOf(source, k) + 1,
                       column |-> ColumnOf(source, k) + 1]
        ELSE /\ reader # NoReader
             /\ ret = reader
             /\ exc = NoExc

C8_Witness ==
    /\ op.name = "Parser.parse"
    /\ exc # NoExc
    /\ reader = NoReader
    /\ Parser_get_position(parser).line = 1
    /\ Parser_get_position(parser).column = 4
    /\ exc.line = 2
    /\ exc.column = 5

\* C9: after a successful parse that emitted instructions 0..n-1, the source
\* map holds one span per instruction, find(i) returns a span whose instruction
\* is i for every i < n, and returns none for every i >= n.
C9_FindSpan ==
    (op.name = "SourceMap.find" /\ ~parser.failed) =>
        LET i == op.args[1]
            n == Reader_len(reader)
        IN  /\ Cardinality(Parser_get_source_map(parser)) = n
            /\ i < n => (ret # NoValue /\ ret.instruction = i)
            /\ i >= n => ret = NoValue

C9_Witness ==
    /\ op.name = "SourceMap.find"
    /\ ~parser.failed
    /\ Reader_len(reader) = 3
    /\ op.args[1] = 2
    /\ ret # NoValue
    /\ ret.instruction = 2
    /\ ret.start.line = 1

\* C7: a write of code_pointer, to a value inside or outside the program, is
\* accepted: it raises nothing, leaves the VM ready, and changes nothing of the
\* VM but code_pointer, which then reads as the value written; and a VM only
\* ever becomes Faulted by a turn of the execution loop.
C7_LazyCodePointer ==
    [][ /\ (Idle /\ op'.name = "Registers.code_pointer") =>
            /\ exc' = NoExc
            /\ vm' = [vm EXCEPT !.registers.code_pointer = op'.args[1]]
            /\ Registers_code_pointer(vm') = op'.args[1]
        /\ (vm' # NoVM /\ vm'.status = "faulted") =>
            (vm # NoVM /\ vm.status \in {"running", "faulted"})
      ]_vars

C7_Witness ==
    /\ Idle
    /\ op.name = "Registers.code_pointer"
    /\ op.args[1] > Reader_len(reader)
    /\ Registers_code_pointer(vm) = op.args[1]
    /\ vm.registers.frame_pointer = 1
    /\ exc = NoExc

\* The Values C2 speaks of: Integer, Float and the four Address kinds.
Storable(v) == v.kind \in INTEGER .. ADDRESS_STACK

\* C2: a pop made right after a push of an Integer, Float or Address Value
\* returns a Value of the same kind and payload, and leaves the stack exactly
\* as it was before the push.
C2_PushPop ==
    (Idle /\ op.name = "Stack.pop" /\ op.prev.name = "Stack.push"
          /\ Storable(op.prev.args[1])) =>
        /\ IsValue(ret)
        /\ SameValue(ret, op.prev.args[1])
        /\ vm.stack = op.prev.before
        /\ Stack_len(vm.stack) = Len(op.prev.before)

C2_Witness ==
    /\ Idle
    /\ op.name = "Stack.pop"
    /\ op.prev.name = "Stack.push"
    /\ IsValue(ret)
    /\ ret.kind = INTEGER
    /\ Value_value(ret) = Cell(-1)
    /\ Stack_len(vm.stack) = 1
    /\ vm.stack[1].kind = ADDRESS_STACK

\* C3: a load made right after a store at the same index i < length returns
\* the stored Value with the same kind and payload, and the store left the
\* length and every element at another index as they were.
C3_StoreLoad ==
    (Idle /\ op.name = "Stack.load" /\ op.prev.name = "Stack.store"
          /\ op.prev.args[1] = op.args[1] /\ op.args[1] < Len(op.prev.before)) =>
        /\ IsValue(ret)
        /\ ret.kind = op.prev.args[2].kind
        /\ SameValue(ret, op.prev.args[2])
        /\ Stack_len(vm.stack) = Len(op.prev.before)
        /\ \A j \in 0 .. Len(op.prev.before) - 1 :
            j # op.args[1] => Stack_load(vm.stack, j) = Stack_load(op.prev.before, j)

C3_Witness ==
    /\ Idle
    /\ op.name = "Stack.load"
    /\ op.prev.name = "Stack.store"
    /\ op.prev.args[1] = 0
    /\ op.args[1] = 0
    /\ Len(op.prev.before) = 2
    /\ op.prev.before[1].kind = ADDRESS_STACK
    /\ IsValue(ret)
    /\ ret.kind = ADDRESS_HEAP

\* C5: Value.init(ValueType.NONE, x) raises for every x, returns no Value, and
\* leaves the parser, the Reader and the VM (registers and stack) as they were.
C5_NoneRejected ==
    [][ (Idle /\ op'.name = "Value.init" /\ op'.args[1] = NONE) =>
            /\ exc' # NoExc
            /\ ret' = NoValue
            /\ UNCHANGED <<source, parser, reader, vm>>
      ]_vars

C5_Witness ==
    /\ Idle
    /\ op.name = "Value.init"
    /\ op.args = <<NONE, 7>>
    /\ exc # NoExc
    /\ ret = NoValue
    /\ Stack_len(vm.stack) = 2

\* What a store leaves: the length as it was; at an index below the length only
\* that element may differ; at any other index nothing differs.
StoreKeepsShape ==
    (Idle /\ op.name = "Stack.store") =>
        /\ Stack_len(vm.stack) = Len(op.before)
        /\ IF op.args[1] < Len(op.before)
           THEN \A j \in 1 .. Len(op.before) :
                    j # op.args[1] + 1 => vm.stack[j] = op.before[j]
           ELSE vm.stack = op.before

\* C6: store never changes the stack's length; below the length it overwrites
\* one element, at or beyond the length it leaves the stack as it was; and
\* between calls of the host the length changes only by +1 on a push and by -1
\* on a pop.
C6_StoreNeverGrows ==
    [][ /\ StoreKeepsShape'
        /\ (Idle /\ vm' # NoVM /\ vm'.status = "ready"
                 /\ Len(vm'.stack) # Len(vm.stack)) =>
            \/ op'.name = "Stack.push" /\ Len(vm'.stack) = Len(vm.stack) + 1
            \/ op'.name = "Stack.pop" /\ Len(vm'.stack) = Len(vm.stack) - 1
      ]_vars

C6_Witness ==
    /\ Idle
    /\ op.name = "Stack.store"
    /\ Len(op.before) = 1
    /\ op.args[1] = 1
    /\ vm.stack = op.before

\* C10 as stated: every element of every reachable stack has one of the six
\* kinds Integer, Float, AddressHeap, AddressString, AddressCode, AddressStack.
C10_NoNoneOnStack ==
    vm # NoVM => \A j \in 1 .. Len(vm.stack) : vm.stack[j].kind \in INTEGER .. ADDRESS_STACK

=============================================================================
